---- MODULE Spec2Model ----
(***************************************************************************)
(* A model of planning.py: the catalog cache (get_upmc_plannings), the     *)
(* catalog discovery (download_upmc_plannings), the schedule lookup        *)
(* (get_upmc_public), the feed fetcher (get_upmc_ical) and the calendar    *)
(* normalizer (fix_upmc_ical).                                             *)
(*                                                                         *)
(* Python values are modelled as follows.                                  *)
(*   - a dict is a function; a dict with optional keys is a record whose   *)
(*     DOMAIN says which keys are present (event['rrule'] raises KeyError  *)
(*     when "rrule" is not in the DOMAIN);                                 *)
(*   - a text that the code splits or matches (an event title, a category, *)
(*     a summary) is a sequence of one-character strings;                  *)
(*   - a name that the code only compares or concatenates is a string;     *)
(*   - a datetime is [t, tz] with tz = "naive" when it has no tzinfo;      *)
(*   - a call that can raise returns [err |-> "none", ...] or              *)
(*     [err |-> <exception name>];                                         *)
(*   - time is counted in minutes.                                         *)
(***************************************************************************)
EXTENDS Integers, Sequences, FiniteSets, TLC

VARIABLES
    snapshot,   \* cache/upmc_plannings.json: NoFile or [plannings, datetime]
    icals,      \* cache/upmc_icals.json: NoFile or [index: url -> timestamp]
    files,      \* cache/<uni>-<public_code>-<group>.ical: file name -> body
    now,        \* the wall clock, in minutes
    ticks,      \* how many times the clock has advanced (bounds the model)
    last,       \* the last call made: its arguments, what it saw, its outcome
    inp,        \* the argument of the pure function under check
    out         \* its result, or Pending

vars == <<snapshot, icals, files, now, ticks, last, inp, out>>

----------------------------------------------------------------------------
(* Bounds of the model *)

MaxTicks == 2
MaxTitleLen == 3
MaxRecords == 2

----------------------------------------------------------------------------
(* Python helpers *)

NoFile == [file |-> "missing"]
NoPublic == [none |-> TRUE]
Pending == [pending |-> TRUE]

Min(S) == CHOOSE x \in S : \A y \in S : x <= y

\* F(v), with v evaluated once for all its uses in F
Bind(v, F(_)) == CHOOSE r \in {F(x) : x \in {v}} : TRUE

Reverse(s) == [i \in 1..Len(s) |-> s[Len(s) + 1 - i]]

\* the sequences over S of length at most n
SeqsUpTo(S, n) == UNION {[1..k -> S] : k \in 0..n}

\* str.strip(chars), on a sequence of characters
RECURSIVE LStrip(_, _)
LStrip(s, cs) ==
    IF s # <<>> /\ Head(s) \in cs THEN LStrip(Tail(s), cs) ELSE s

Strip(s, cs) == Reverse(LStrip(Reverse(LStrip(s, cs)), cs))

\* str.split(sep): always at least one segment
RECURSIVE Split(_, _)
Split(s, sep) ==
    LET at == {i \in 1..Len(s) : s[i] = sep}
    IN  IF at = {} THEN <<s>>
        ELSE <<SubSeq(s, 1, Min(at) - 1)>>
                 \o Split(SubSeq(s, Min(at) + 1, Len(s)), sep)

\* sep.join(parts), on sequences of characters
RECURSIVE JoinChars(_, _)
JoinChars(parts, sep) ==
    IF parts = <<>> THEN <<>>
    ELSE IF Len(parts) = 1 THEN parts[1]
    ELSE parts[1] \o sep \o JoinChars(Tail(parts), sep)

\* sep.join(parts), on strings
RECURSIVE Join(_, _)
Join(parts, sep) ==
    IF parts = <<>> THEN ""
    ELSE IF Len(parts) = 1 THEN parts[1]
    ELSE parts[1] \o sep \o Join(Tail(parts), sep)

\* list.sort() on strings: the model's names, in ascending string order
NameOrder == <<"", "0", "A", "A_B", "B", "C", "LI101", "LI102", "XX">>
Rank(x) == CHOOSE i \in 1..Len(NameOrder) : NameOrder[i] = x

\* groups.sort(): ascending string order
RECURSIVE InsertName(_, _)
InsertName(x, s) ==
    IF s = <<>> THEN <<x>>
    ELSE IF Rank(x) < Rank(Head(s)) THEN <<x>> \o s
    ELSE <<Head(s)>> \o InsertName(x, Tail(s))

RECURSIVE SortNames(_)
SortNames(s) ==
    IF s = <<>> THEN <<>>
    ELSE InsertName(s[Len(s)], SortNames(SubSeq(s, 1, Len(s) - 1)))

\* planning_publics.sort(key=lambda p: p['name']): stable, ascending by name
RECURSIVE InsertPublic(_, _)
InsertPublic(x, s) ==
    IF s = <<>> THEN <<x>>
    ELSE IF Rank(x.name) < Rank(Head(s).name) THEN <<x>> \o s
    ELSE <<Head(s)>> \o InsertPublic(x, Tail(s))

RECURSIVE SortPublics(_)
SortPublics(s) ==
    IF s = <<>> THEN <<>>
    ELSE InsertPublic(s[Len(s)], SortPublics(SubSeq(s, 1, Len(s) - 1)))

----------------------------------------------------------------------------
(* Time *)

Tz == "Europe/Paris"
MinutesFresh == 30
DayMinutes == 1440
\* the utc offset of Europe/Paris, in minutes, on the (winter) dates modelled
ParisOffset == 60

Naive(t) == [t |-> t, tz |-> "naive"]

\* tz.localize(dt): raises ValueError on a datetime that has a tzinfo
CanLocalize(dt) == dt.tz = "naive"
Localize(dt) == [t |-> dt.t, tz |-> Tz]
\* aware.astimezone(pytz.utc)
ToUtc(dt) == [t |-> dt.t - ParisOffset, tz |-> "UTC"]
IsAware(dt) == dt.tz # "naive"

----------------------------------------------------------------------------
(* The calendar normalizer: fix_upmc_ical *)

Raise(e) == [err |-> e]

Whitespace == {" ", "\n"}
Lower == <<"a", "b", "c", "d", "m", "p", "t", "u", "r", "e">>
UpperOf == <<"A", "B", "C", "D", "M", "P", "T", "U", "R", "E">>
Digits == {"0", "1", "2"}
Alnum == {Lower[i] : i \in 1..Len(Lower)} \cup {UpperOf[i] : i \in 1..Len(Lower)}
             \cup {"G"} \cup Digits

\* str.upper()
UpperChar(c) ==
    IF \E i \in 1..Len(Lower) : Lower[i] = c
    THEN UpperOf[CHOOSE i \in 1..Len(Lower) : Lower[i] = c]
    ELSE c
Upper(s) == [i \in 1..Len(s) |-> UpperChar(s[i])]

CM == <<"C", "M">>
TD == <<"T", "D">>
AUTRE == <<"A", "U", "T", "R", "E">>
CoursMagistral == <<"C", "o", "u", "r", "s", " ", "m", "a", "g", "i", "s", "t", "r", "a", "l">>
\* "Travaux dirigés", its accent dropped
TravauxDiriges == <<"T", "r", "a", "v", "a", "u", "x", " ", "d", "i", "r", "i", "g", "e", "s">>
SepType == <<" ", ":", " ">>
GroupeLine == <<"\n", "G", "r", "o", "u", "p", "e", " ", ":", " ">>
IntervenantLine == <<"\n", "\n", "I", "n", "t", "e", "r", "v", "e", "n", "a", "n", "t", " ", ":", " ">>
SalleLine == <<"\n", "\n", "S", "a", "l", "l", "e", " ", ":", " ">>
Inconnu == <<"i", "n", "c", "o", "n", "n", "u">>
IntervenantKey == <<"I", "n", "t", "e", "r", "v", "e", "n", "a", "n", "t", " ", ":">>

\* the length of the longest run of characters of cs that starts s at i
RECURSIVE RunLen(_, _, _)
RunLen(s, i, cs) ==
    IF i <= Len(s) /\ s[i] \in cs THEN 1 + RunLen(s, i + 1, cs) ELSE 0

\* re_group = (\[[0-9a-zA-Z]+\]) (.+): the places where it matches s
GroupMatchAt(s, i) ==
    LET k == RunLen(s, i + 1, Alnum)
    IN  /\ s[i] = "["
        /\ k >= 1
        /\ i + k + 3 <= Len(s)
        /\ s[i + k + 1] = "]"
        /\ s[i + k + 2] = " "
        /\ s[i + k + 3] # "\n"

\* re_group.findall(title): no match (<<>>), or <<the first match>>, which is
\* all the code reads; a match is <<the bracketed group, the rest of the line>>
ReGroupFindall(s) ==
    LET at == {i \in 1..Len(s) : GroupMatchAt(s, i)}
    IN  IF at = {} THEN <<>>
        ELSE LET i == Min(at)
                 k == RunLen(s, i + 1, Alnum)
                 rest == SubSeq(s, i + k + 3, Len(s))
             IN  << <<SubSeq(s, i, i + k + 1),
                      SubSeq(rest, 1, RunLen(rest, 1, {rest[j] : j \in 1..Len(rest)} \ {"\n"}))>> >>

\* re_speaker = Intervenant :([^-]+): the first match's capture, <<>> if none
ReSpeakerFindall(s) ==
    LET n == Len(IntervenantKey)
        at == {i \in 1..Len(s) :
                  /\ i + n <= Len(s)
                  /\ SubSeq(s, i, i + n - 1) = IntervenantKey
                  /\ s[i + n] # "-"}
    IN  IF at = {} THEN <<>>
        ELSE LET i == Min(at) + n
             IN  <<SubSeq(s, i, i + RunLen(s, i, {s[j] : j \in 1..Len(s)} \ {"-"}) - 1)>>

\* line 236-251: <<course_type, course_type_short>> of an event
CourseType(event) ==
    IF "categories" \notin DOMAIN event THEN << <<>>, <<>> >>
    ELSE LET raw == Upper(Strip(event.categories, Whitespace))
             pair == IF raw = CM THEN <<CoursMagistral, <<>> >>
                     ELSE IF raw = TD THEN <<TravauxDiriges, TD>>
                     ELSE IF raw = AUTRE THEN << <<>>, <<>> >>
                     ELSE <<raw, raw>>
         IN  <<pair[1], IF pair[2] # <<>> THEN pair[2] \o <<" ">> ELSE pair[2]>>

\* line 259: the title split on '-', each part stripped of blanks, then of commas
TitleParts(title) ==
    LET raw == Split(title, "-")
    IN  [i \in 1..Len(raw) |-> Strip(Strip(raw[i], Whitespace), {","})]

\* line 270-271
FixPlace(place) ==
    IF ":" \in {place[i] : i \in 1..Len(place)}
    THEN Strip(JoinChars(Tail(Split(place, ":")), <<":">>), Whitespace)
    ELSE place

\* line 253-257: <<group, title>> of the summary; group is <<>> for None
GroupAndTitle(summary) ==
    LET group_match == ReGroupFindall(summary)
    IN  IF group_match # <<>> THEN <<group_match[1][1], group_match[1][2]>>
        ELSE << <<>>, summary>>

\* line 260-271: code, name and place, of two title parts or of three and more
CodeNamePlace(title_parts) ==
    IF Len(title_parts) = 2
    THEN [code |-> title_parts[1], name |-> title_parts[1],
          place |-> FixPlace(title_parts[2])]
    ELSE [code |-> title_parts[1], name |-> title_parts[2],
          place |-> FixPlace(title_parts[3])]

\* line 273-276
Summary(group, course_type_short, code, name, remove_groups) ==
    (IF remove_groups \/ group = <<>> THEN <<>> ELSE group \o <<" ">>)
       \o course_type_short \o name
       \o (IF code # name THEN <<" ", "(">> \o code \o <<")">> ELSE <<>>)

\* line 281-286
Speaker(old_description) ==
    LET speaker_match == ReSpeakerFindall(old_description)
    IN  IF speaker_match # <<>> /\ Strip(speaker_match[1], Whitespace) # <<>>
        THEN Strip(speaker_match[1], Whitespace)
        ELSE Inconnu

\* line 288-292
Description(course_type, code, name, place, group, speaker) ==
    course_type \o (IF course_type # <<>> THEN SepType ELSE <<>>)
       \o name \o <<" ", "(">> \o code \o <<")">>
       \o (IF group # <<>>
           THEN GroupeLine
                  \o SelectSeq(Strip(group, Whitespace),
                               LAMBDA c : c \notin {"[", "]"})
           ELSE <<>>)
       \o IntervenantLine \o speaker
       \o SalleLine \o place

\* line 218-231, 276, 294: the fields the loop writes back to the event
Rewrite(event, ctype, group, parts, remove_groups) ==
    [event EXCEPT
        !.dtstart = Localize(event.dtstart),
        !.dtend = Localize(event.dtend),
        !.dtstamp = ToUtc(Localize(event.dtstamp)),
        !.rrule = [event.rrule EXCEPT
                      !.until = [i \in 1..Len(event.rrule.until) |->
                                    Localize(event.rrule.until[i])]],
        !.summary = Summary(group, ctype[2], parts.code, parts.name, remove_groups),
        !.description = Description(ctype[1], parts.code, parts.name, parts.place,
                                    group, Speaker(event.description))]

\* line 259-294: the loop body from the title parts on
FixTitled(event, remove_groups, group, title_parts) ==
    IF Len(title_parts) # 2 /\ Len(title_parts) < 3 THEN Raise("IndexError")
    ELSE IF "description" \notin DOMAIN event THEN Raise("KeyError")
    ELSE [err |-> "none",
          event |-> Rewrite(event, CourseType(event), group,
                            CodeNamePlace(title_parts), remove_groups)]

\* line 213-294: one event of the loop; [err |-> "none", event] or the exception
FixEvent(event, remove_groups) ==
    IF ~ ({"dtstart", "dtend", "dtstamp"} \subseteq DOMAIN event) THEN Raise("KeyError")
    ELSE IF ~ (CanLocalize(event.dtstart) /\ CanLocalize(event.dtend)
                  /\ CanLocalize(event.dtstamp)) THEN Raise("ValueError")
    ELSE IF "rrule" \notin DOMAIN event THEN Raise("KeyError")
    ELSE IF "until" \notin DOMAIN event.rrule THEN Raise("KeyError")
    ELSE IF \E i \in 1..Len(event.rrule.until) : ~ CanLocalize(event.rrule.until[i])
         THEN Raise("ValueError")
    ELSE IF "summary" \notin DOMAIN event THEN Raise("KeyError")
    ELSE LET found == GroupAndTitle(event.summary)
         IN  FixTitled(event, remove_groups, found[1], TitleParts(found[2]))

\* line 213-215: the loop over the calendar's components, events only; the
\* first event that raises ends the loop
FixComponents(comps, remove_groups) ==
    Bind([i \in 1..Len(comps) |->
             IF comps[i].kind = "VEVENT" THEN FixEvent(comps[i].ev, remove_groups)
                                         ELSE [err |-> "none"]],
         LAMBDA fixed :
            LET raising == {i \in 1..Len(comps) : fixed[i].err # "none"}
            IN  IF raising # {} THEN fixed[Min(raising)]
                ELSE [err |-> "none",
                      comps |-> [i \in 1..Len(comps) |->
                                    IF comps[i].kind = "VEVENT"
                                    THEN [kind |-> "VEVENT", ev |-> fixed[i].event]
                                    ELSE comps[i]]])

----------------------------------------------------------------------------
(* The catalog discovery: download_upmc_plannings *)

BaseUrl == "http://planning.upmc.fr/"

\* href.strip('/') and href.strip(), on the hrefs of the modelled site
StripSlashes(h) ==
    CASE h = "upmc/" -> "upmc"
      [] h = "stages/" -> "stages"
      [] h = "LI101/" -> "LI101"
      [] h = "LI102/" -> "LI102"
      [] OTHER -> h
StripBlanks(h) ==
    CASE h = " LI101/" -> "LI101/"
      [] OTHER -> h
\* href.lower().startswith('http')
IsExternal(h) == h \in {"http://www.upmc.fr", "HTTPS://ent.upmc.fr"}

\* line 81-83: the loop over the records of the subgroup answer; it stops at
\* the first record without the field, with what it has appended so far
RECURSIVE CollectGroups(_, _)
CollectGroups(records, groups) ==
    IF records = <<>> THEN [err |-> "none", groups |-> groups]
    ELSE IF "avaibleGroupId" \notin DOMAIN Head(records)
    THEN [err |-> "KeyError", groups |-> groups]
    ELSE LET g == Head(records).avaibleGroupId
         IN  CollectGroups(Tail(records),
                           IF \E i \in 1..Len(groups) : groups[i] = g
                           THEN groups ELSE Append(groups, g))

\* line 73-87: the groups of one schedule-group, from the answer of jsoncal.aspx
DiscoverGroups(answer) ==
    IF answer.kind # "json" THEN <<>>          \* requests / json.loads raised
    ELSE LET c == CollectGroups(answer.records, <<>>)
         IN  IF c.err = "none" THEN SortNames(c.groups)
             ELSE c.groups                     \* except: pass

\* line 62-93: the loop over the anchors of an institution page
RECURSIVE SectionPublics(_, _)
SectionPublics(anchors, up) ==
    IF anchors = <<>> THEN [err |-> "none", publics |-> <<>>]
    ELSE LET link == Head(anchors)
         IN  IF "href" \notin DOMAIN link THEN Raise("AttributeError")
             ELSE LET href == StripBlanks(link.href)
                      rest == SectionPublics(Tail(anchors), up)
                  IN  IF rest.err # "none" THEN rest
                      ELSE IF IsExternal(href) THEN rest
                      ELSE [err |-> "none",
                            publics |->
                               <<[name |-> link.text,
                                  groups |-> DiscoverGroups(up.jsoncal[link.text]),
                                  url |-> BaseUrl \o StripSlashes(href)]>>
                                  \o rest.publics]

\* line 44-103: the loop over the anchors of the root page; plannings is the
\* dict built so far
RECURSIVE RootLoop(_, _, _)
RootLoop(anchors, plannings, up) ==
    IF anchors = <<>> THEN [err |-> "none", plannings |-> plannings]
    ELSE LET link == Head(anchors)
         IN  IF "href" \notin DOMAIN link THEN RootLoop(Tail(anchors), plannings, up)
             ELSE IF ~ up.sections[link.href].ok
                  THEN [err |-> "HTTPError", plannings |-> plannings]
             ELSE LET sec == SectionPublics(up.sections[link.href].page, up)
                      section == StripSlashes(link.href)
                      entry == [name |-> link.text,
                                url |-> BaseUrl \o link.href,
                                publics |-> SortPublics(sec.publics)]
                  IN  IF sec.err # "none"
                      THEN [err |-> sec.err, plannings |-> plannings]
                      ELSE RootLoop(Tail(anchors),
                                    [k \in DOMAIN plannings \cup {section} |->
                                        IF k = section THEN entry ELSE plannings[k]],
                                    up)

\* a discovery that skips what fails and returns what it has
DownloadSkippingFailures(up) ==
    [err |-> "none",
     plannings |-> IF up.rootOk THEN RootLoop(up.root, <<>>, up).plannings ELSE <<>>]

\* line 35-105; on an exception, plannings is the local that is lost with it
download_upmc_plannings(up) ==
    IF ~ up.rootOk THEN [err |-> "HTTPError", plannings |-> <<>>]
    ELSE RootLoop(up.root, <<>>, up)

----------------------------------------------------------------------------
(* The catalog cache: get_upmc_plannings, get_upmc_public *)

\* a freshness test that takes a snapshot of exactly one day for fresh
ServesSnapshotAtOneDay(force_cache, snap, t) ==
    force_cache \/ t - snap.datetime <= DayMinutes

\* line 23: the snapshot that was read is the answer
ServesSnapshot(force_cache, snap, t) ==
    force_cache \/ t - snap.datetime < DayMinutes

\* a read failure that is always swallowed
NeverAborts(force_cache) == FALSE

\* line 25-27: a failed read of the snapshot ends the request with abort(503)
AbortsOnReadFailure(force_cache) == force_cache

\* line 17-33.  snap is cache/upmc_plannings.json, readOk whether open() and
\* json.load() of it succeed, writeOk whether open(.., 'w') succeeds, up the
\* upstream site, t the time.  The result has the exception (err), the
\* returned catalog, the file afterwards and whether discovery was invoked.
get_upmc_plannings(force_cache, force_update, snap, readOk, writeOk, up, t) ==
    LET readable == snap # NoFile /\ readOk
        d == download_upmc_plannings(up)
    IN  IF ~ force_update /\ readable /\ ServesSnapshot(force_cache, snap, t)
        THEN [err |-> "none", plannings |-> snap.plannings,
              snapshot |-> snap, discovered |-> FALSE]
        ELSE IF ~ force_update /\ ~ readable /\ AbortsOnReadFailure(force_cache)
        THEN [err |-> "ServiceUnavailable", snapshot |-> snap, discovered |-> FALSE]
        ELSE IF d.err # "none"
        THEN [err |-> d.err, snapshot |-> snap, discovered |-> TRUE]
        ELSE IF ~ writeOk
        THEN [err |-> "OSError", snapshot |-> snap, discovered |-> TRUE]
        ELSE [err |-> "none", plannings |-> d.plannings,
              snapshot |-> [plannings |-> d.plannings, datetime |-> t],
              discovered |-> TRUE]

\* an upstream site for the calls that never reach discovery
NoUpstream == [rootOk |-> FALSE]

\* line 107-113: [err |-> "none", public |-> the schedule-group or NoPublic],
\* or the exception of get_upmc_plannings()
get_upmc_public(uni, public_code, snap, readOk, t) ==
    LET r == get_upmc_plannings(TRUE, FALSE, snap, readOk, TRUE, NoUpstream, t)
    IN  IF r.err # "none" THEN Raise(r.err)
        ELSE IF uni \notin DOMAIN r.plannings
        THEN [err |-> "none", public |-> NoPublic]
        ELSE LET publics == r.plannings[uni].publics
                 at == {i \in 1..Len(publics) : publics[i].name = public_code}
             IN  [err |-> "none",
                  public |-> IF at = {} THEN NoPublic ELSE publics[Min(at)]]

----------------------------------------------------------------------------
(* The normalizer, on a whole calendar *)

\* Calendar.from_ical(raw_ical): one BEGIN:VCALENDAR ... END:VCALENDAR that
\* holds components only; anything else raises ValueError
ParsesAsCalendar(lines) ==
    /\ Len(lines) >= 2
    /\ lines[1].kind = "BEGIN"
    /\ lines[Len(lines)].kind = "END"
    /\ \A i \in 2..(Len(lines) - 1) : lines[i].kind \in {"VEVENT", "VTIMEZONE"}

\* line 183-187
CalendarTitle(public_code, groups) ==
    "Calendrier de l'UPMC"
       \o (IF public_code # "" THEN " pour l'UE " \o public_code ELSE "")
       \o (IF groups # <<>>
           THEN " (groupe" \o (IF Len(groups) > 1 THEN "s" ELSE "") \o " "
                   \o Join(groups, ", ") \o ")"
           ELSE "")

\* line 189-196
CalendarDesc(uni, public_code, groups, calendar_url) ==
    "Calendrier de l'UPMC"
       \o (IF public_code # "" THEN " pour l'UE " \o public_code ELSE "")
       \o (IF groups # <<>>
           THEN " ; groupe" \o (IF Len(groups) > 1 THEN "s" ELSE "") \o " "
                   \o Join(groups, ", ") \o "."
           ELSE "")
       \o (IF uni # "" /\ public_code # ""
           THEN "\n\nRetrouvez ce calendrier sur le site de l'UPMC : \n" \o calendar_url
           ELSE "")

\* ical.to_ical() and bytes.decode("utf-8")
ToIcal(cal) == [bytes |-> cal]
Decode(b) == b.bytes

\* line 173-296.  uni and public_code are "" when not given, groups <<>> when
\* not given; snap, readOk and t are what get_upmc_public reads.
fix_upmc_ical(raw_ical, uni, public_code, groups, remove_groups, snap, readOk, t) ==
    IF ~ ParsesAsCalendar(raw_ical) THEN Raise("ValueError")
    ELSE
    LET known == uni # "" /\ public_code # ""
    IN  Bind(get_upmc_public(uni, public_code, snap, readOk, t), LAMBDA pub :
        IF known /\ pub.err # "none" THEN Raise(pub.err)
        ELSE IF known /\ pub.public = NoPublic THEN Raise("TypeError")
        ELSE
        Bind(FixComponents(SubSeq(raw_ical, 2, Len(raw_ical) - 1), remove_groups),
             LAMBDA fixed :
            IF fixed.err # "none" THEN Raise(fixed.err)
            ELSE [err |-> "none",
                  ical |-> ToIcal([calname |-> CalendarTitle(public_code, groups),
                                   caldesc |-> CalendarDesc(
                                       uni, public_code, groups,
                                       IF known THEN pub.public.url ELSE ""),
                                   timezone |-> Tz,
                                   ttl |-> 360,
                                   calscale |-> "GREGORIAN",
                                   components |-> fixed.comps])]))

----------------------------------------------------------------------------
(* The feed fetcher: get_upmc_ical *)

FeedUrl(uni, public_code, group) ==
    "http://planning.upmc.fr/ical/" \o uni \o "/" \o public_code \o "/" \o group
FeedFile(uni, public_code, group) ==
    "cache/" \o uni \o "-" \o public_code \o "-" \o group \o ".ical"

\* line 149-158: the answer cut after its last END:VCALENDAR line; without
\* such a line end_index stays -1 and the slice keeps the first line only
TrimFeed(text) ==
    LET lines_rev == Reverse(text)
        at == {i \in 1..Len(lines_rev) : lines_rev[i].kind = "END"}
    IN  IF at = {} THEN <<text[1]>>
        ELSE Reverse(SubSeq(lines_rev, Min(at), Len(lines_rev)))

\* labels stripped when all the groups are asked for
RemoveGroupsOfAll(groups_all) == groups_all

\* line 160: remove_groups=not groups_all
RemoveGroups(groups_all) == ~ groups_all

\* a dict with one more key
Put(f, k, v) == [x \in DOMAIN f \cup {k} |-> IF x = k THEN v ELSE f[x]]

\* line 116-171.  env is what the call meets: indexReadOk, bodyReadOk and
\* catReadOk (whether reading cache/upmc_icals.json, the cached body and
\* cache/upmc_plannings.json succeed), answer (of the upstream feed request)
\* and write ("ok", or the file whose open(.., 'w') fails: "index", "body").
\* The result has the exception (err), the returned value (NotFound for
\* None), the two stores afterwards, whether the cache held a fresh entry
\* with a readable body (hit), whether the feed was requested upstream
\* (fetched) and whether fix_upmc_ical returned (normalized).
NotFound == [none |-> TRUE]

get_upmc_ical(uni, public_code, group, env, snap, index, bodies, t) ==
    LET mem == IF index = NoFile \/ ~ env.indexReadOk THEN <<>> ELSE index.index
        groups_all == group = "all" \/ group = "tout"
        same == [icals |-> index, files |-> bodies]
    IN  Bind(get_upmc_public(uni, public_code, snap, env.catReadOk, t), LAMBDA pub :
        IF groups_all /\ pub.err # "none"
        THEN [err |-> pub.err, fetched |-> FALSE, hit |-> FALSE,
              normalized |-> FALSE] @@ same
        ELSE IF groups_all /\ pub.public = NoPublic
        THEN [err |-> "TypeError", fetched |-> FALSE, hit |-> FALSE,
              normalized |-> FALSE] @@ same
        ELSE
        LET groups == IF groups_all THEN pub.public.groups ELSE <<group>>
            token == IF ~ groups_all THEN group
                     ELSE IF groups # <<>> THEN Join(groups, "_") ELSE "0"
            url == FeedUrl(uni, public_code, token)
            file == FeedFile(uni, public_code, token)
            fresh == url \in DOMAIN mem /\ t - mem[url] < MinutesFresh
            hit == fresh /\ file \in DOMAIN bodies /\ env.bodyReadOk
            seen == [fetched |-> TRUE, hit |-> hit, token |-> token,
                     normalized |-> FALSE]
            done == [fetched |-> TRUE, hit |-> hit, token |-> token,
                     normalized |-> TRUE]
            \* line 136-140: the body is opened and not returned
        IN  IF env.answer.kind = "neterr"
            THEN [err |-> "ConnectionError"] @@ seen @@ same
            ELSE IF env.answer.kind = "status"
            THEN [err |-> "none", value |-> NotFound] @@ seen @@ same
            ELSE
            Bind(fix_upmc_ical(TrimFeed(env.answer.text), uni, public_code,
                               groups, RemoveGroups(groups_all), snap,
                               env.catReadOk, t), LAMBDA fixed :
            LET mem2 == Put(mem, url, t)
            IN  IF fixed.err # "none" THEN [err |-> fixed.err] @@ seen @@ same
                ELSE IF env.write = "index"
                THEN [err |-> "OSError"] @@ done @@ same
                ELSE IF env.write = "body"
                THEN [err |-> "OSError", icals |-> [index |-> mem2], files |-> bodies]
                        @@ done
                ELSE [err |-> "none", value |-> Decode(fixed.ical),
                      icals |-> [index |-> mem2],
                      files |-> Put(bodies, file, fixed.ical)] @@ done))

----------------------------------------------------------------------------
(* The upstream site and the calendars it serves *)

Anchor(text, href) == [text |-> text, href |-> href]

\* the root page: two institutions and an anchor without href
RootPage == <<Anchor("UPMC", "upmc/"), [text |-> "haut de page"],
              Anchor("Stages", "stages/")>>
\* the institution pages: schedule-groups and an external link
UpmcPage == <<Anchor("LI102", "LI102/"), Anchor("UPMC", "http://www.upmc.fr"),
              Anchor("LI101", " LI101/")>>
StagesPage == <<Anchor("LI101", "LI101/")>>
\* an institution page with an anchor that has no href
AnchorPage == <<Anchor("LI101", "LI101/"), [text |-> "haut de page"]>>

NetErr == [kind |-> "neterr"]
BadJson == [kind |-> "badjson"]
Json(records) == [kind |-> "json", records |-> records]
GroupRecord(g) == [avaibleGroupId |-> g, title |-> "cours"]
OtherRecord == [title |-> "cours"]

\* the sites the catalog cache is exercised with: the pages are fixed, the
\* statuses and the subgroup answer vary
CatalogWorlds ==
    {[rootOk |-> r, root |-> RootPage,
      sections |-> [h \in {"upmc/", "stages/"} |->
                       [ok |-> IF h = "upmc/" THEN u ELSE s,
                        page |-> IF h = "upmc/" THEN UpmcPage ELSE StagesPage]],
      jsoncal |-> [n \in {"LI101", "LI102"} |-> IF n = "LI101" THEN a ELSE NetErr]] :
        r \in BOOLEAN, u \in BOOLEAN, s \in BOOLEAN,
        a \in {NetErr, Json(<<GroupRecord("B"), GroupRecord("A"), GroupRecord("B")>>)}}

\* the sites discovery alone is exercised with: pages and answers vary
JsonAnswers ==
    {NetErr, BadJson}
       \cup {Json(rs) : rs \in SeqsUpTo({GroupRecord("A"), GroupRecord("B"), OtherRecord},
                                       MaxRecords)}
DiscoveryWorlds ==
    {[rootOk |-> r, root |-> RootPage,
      sections |-> [h \in {"upmc/", "stages/"} |->
                       IF h = "upmc/" THEN [ok |-> u, page |-> UpmcPage] ELSE s],
      jsoncal |-> [n \in {"LI101", "LI102"} |-> IF n = "LI101" THEN a ELSE b]] :
        r \in BOOLEAN, u \in BOOLEAN,
        s \in {[ok |-> FALSE, page |-> <<>>], [ok |-> TRUE, page |-> StagesPage],
               [ok |-> TRUE, page |-> AnchorPage]},
        a \in JsonAnswers, b \in JsonAnswers}

\* upstream events: zone-naive times, a title, a description
TitleTagged == <<"[", "G", "1", "]", " ", "L", "I", "1", "0", "1", " ", "-", " ", "A", "l", "g", "o", " ", "-", " ", "S", "a", "l", "l", "e", ":", "2", "0", "4">>
TitlePlain == <<"L", "I", "1", "0", "1", " ", "-", " ", "A", "l", "g", "o", " ", "-", " ", "S", "a", "l", "l", "e", ":", "2", "0", "4">>
DescSpeaker == <<"I", "n", "t", "e", "r", "v", "e", "n", "a", "n", "t", " ", ":", " ", "M", ".", " ", "D", "u", "p", "e", " ", "-", " ", "T", "D">>
DescPlain == <<"T", "D">>
Rule(untils) == [freq |-> "WEEKLY", until |-> untils]
RuleCount == [freq |-> "WEEKLY", count |-> 10]

BareEvent(title) ==
    [dtstart |-> Naive(600), dtend |-> Naive(720), dtstamp |-> Naive(60),
     summary |-> title, description |-> DescSpeaker]
With(event, key, value) == (key :> value) @@ event
UpstreamEvent(title) == With(BareEvent(title), "rrule", Rule(<<Naive(9000)>>))

Line(kind) == [kind |-> kind]
EventLine(event) == [kind |-> "VEVENT", ev |-> event]
Document(components) == <<Line("BEGIN")>> \o components \o <<Line("END")>>

\* the answers of the upstream feed request
FeedTexts ==
    {Document(<<Line("VTIMEZONE"), EventLine(UpstreamEvent(TitleTagged)),
                EventLine(UpstreamEvent(TitlePlain))>>)
        \o <<Line("junk")>>,
     <<Line("BEGIN"), EventLine(UpstreamEvent(TitlePlain))>>,
     Document(<<EventLine(BareEvent(TitleTagged))>>)}
FeedAnswers ==
    {[kind |-> "neterr"], [kind |-> "status"]}
       \cup {[kind |-> "ok", text |-> x] : x \in FeedTexts}

\* the inputs of the normalizer alone
Titles ==
    SeqsUpTo({"a", "-"}, MaxTitleLen)
       \cup {TitleTagged, TitlePlain, <<"[", "G", "1", "]", " ", "a">>, <<"a", ",", " ", "-", " ", "b", " ">>}
Categories == {<<"C", "M">>, <<"t", "d", " ">>, <<"A", "u", "t", "r", "e">>, <<"t", "p">>}
Rules == {Rule(<<>>), Rule(<<Naive(9000)>>), Rule(<<Naive(9000), Naive(9500)>>),
          RuleCount}
NormEvents ==
    {[dtstart |-> Naive(600), dtend |-> Naive(720), dtstamp |-> Naive(60),
      summary |-> title, description |-> d] @@ r @@ c :
        title \in Titles, d \in {DescSpeaker, DescPlain},
        r \in {<<>>} \cup {"rrule" :> x : x \in Rules},
        c \in {<<>>} \cup {"categories" :> x : x \in Categories}}
NormInputs ==
    {[text |-> Document(<<EventLine(e)>>), remove_groups |-> g] :
        e \in NormEvents, g \in BOOLEAN}
       \cup {[text |-> Document(<<EventLine(UpstreamEvent(TitlePlain)), EventLine(e)>>),
              remove_groups |-> FALSE] :
                e \in {UpstreamEvent(TitleTagged), BareEvent(TitlePlain)}}

----------------------------------------------------------------------------
(* The operations *)

\* the clock advances by d minutes
Tick(d) ==
    /\ ticks < MaxTicks
    /\ now' = now + d
    /\ ticks' = ticks + 1
    /\ UNCHANGED <<snapshot, icals, files, last, inp, out>>

\* a call of get_upmc_plannings: the index route (defaults), the
\* update_plannings command (force_cache false), or any other pair of flags
Load ==
    \E force_cache \in BOOLEAN, force_update \in BOOLEAN,
       readOk \in BOOLEAN, writeOk \in BOOLEAN, up \in CatalogWorlds :
    \E r \in {get_upmc_plannings(force_cache, force_update, snapshot,
                                 readOk, writeOk, up, now)} :
            /\ snapshot' = r.snapshot
            /\ last' = [op |-> "load",
                        force_cache |-> force_cache, force_update |-> force_update,
                        readOk |-> readOk, writeOk |-> writeOk,
                        found |-> download_upmc_plannings(up),
                        err |-> r.err, discovered |-> r.discovered,
                        value |-> IF r.err = "none" THEN r.plannings ELSE <<>>]
            /\ UNCHANGED <<icals, files, now, ticks, inp, out>>

\* what a call of get_upmc_ical meets: an upstream answer and at most one
\* failing file operation
Faults == {"none", "index-read", "body-read", "catalog-read", "index-write",
           "body-write"}
FeedEnv(fault, answer) ==
    [indexReadOk |-> fault # "index-read", bodyReadOk |-> fault # "body-read",
     catReadOk |-> fault # "catalog-read",
     write |-> CASE fault = "index-write" -> "index"
                 [] fault = "body-write" -> "body"
                 [] OTHER -> "ok",
     answer |-> answer]

\* the feeds the ical route is asked for
Requests ==
    [uni : {"upmc"}, public_code : {"LI101", "XX"}, group : {"A", "all", "tout"}]
       \cup [uni : {"paris"}, public_code : {"LI101"}, group : {"A", "all", "tout"}]

\* a call of get_upmc_ical, from the ical route, for the feed inp
Fetch ==
    \E fault \in Faults, answer \in FeedAnswers :
    \E r \in {get_upmc_ical(inp.uni, inp.public_code, inp.group,
                            FeedEnv(fault, answer), snapshot, icals, files, now)} :
        /\ icals' = r.icals
        /\ files' = r.files
        /\ last' = [op |-> "fetch", fault |-> fault, answer |-> answer,
                    hit |-> r.hit, fetched |-> r.fetched,
                    token |-> IF r.fetched THEN r.token ELSE "",
                    normalized |-> r.normalized,
                    err |-> r.err,
                    value |-> IF r.err = "none" THEN r.value ELSE NotFound]
        /\ UNCHANGED <<snapshot, now, ticks, inp, out>>

\* fix_upmc_ical on its own, without a schedule to look up
Normalize ==
    /\ out = Pending
    /\ out' = fix_upmc_ical(inp.text, "", "", <<>>, inp.remove_groups, NoFile, TRUE, 0)
    /\ UNCHANGED <<snapshot, icals, files, now, ticks, last, inp>>

\* download_upmc_plannings on its own
Discover ==
    /\ out = Pending
    /\ out' = download_upmc_plannings(inp)
    /\ UNCHANGED <<snapshot, icals, files, now, ticks, last, inp>>

----------------------------------------------------------------------------
(* The specifications *)

Start == [op |-> "none"]

\* the catalogs a finished discovery can have persisted
Catalogs ==
    {download_upmc_plannings(up).plannings :
        up \in {w \in CatalogWorlds : download_upmc_plannings(w).err = "none"}}

InitStores ==
    /\ icals = NoFile
    /\ files = <<>>
    /\ now = 0
    /\ ticks = 0
    /\ last = Start

\* the catalog cache, from an empty cache directory
InitCatalog ==
    /\ InitStores
    /\ snapshot = NoFile
    /\ inp = Pending
    /\ out = Pending
NextCatalog == Load \/ Tick(MinutesFresh) \/ Tick(DayMinutes)
SpecCatalog == InitCatalog /\ [][NextCatalog]_vars

\* the feed fetcher, asked for one feed again and again, over a catalog
\* cache that discovery left as it is (the fetcher reads the catalog with
\* force_cache, which never writes it)
InitFeed ==
    /\ InitStores
    /\ snapshot \in {NoFile} \cup {[plannings |-> c, datetime |-> 0] : c \in Catalogs}
    /\ inp \in Requests
    /\ out = Pending
NextFeed == Fetch \/ Tick(MinutesFresh)
SpecFeed == InitFeed /\ [][NextFeed]_vars

\* the normalizer as a function of the upstream calendar
InitNorm ==
    /\ InitStores
    /\ snapshot = NoFile
    /\ inp \in NormInputs
    /\ out = Pending
NextNorm == Normalize
SpecNorm == InitNorm /\ [][NextNorm]_vars

\* discovery as a function of the upstream site
InitDisc ==
    /\ InitStores
    /\ snapshot = NoFile
    /\ inp \in DiscoveryWorlds
    /\ out = Pending
NextDisc == Discover
SpecDisc == InitDisc /\ [][NextDisc]_vars

----------------------------------------------------------------------------
(* The catalog cache: claims checked under SpecCatalog *)

\* a step of get_upmc_plannings: the clock stands still and last' is the call
LoadStep == ticks' = ticks /\ last'.op = "load"

\* the call of last' is served from the snapshot according to the policy:
\* no forced update, a readable snapshot, and forced cache or an age under a day
PolicyServesSnapshot ==
    /\ ~ last'.force_update
    /\ snapshot # NoFile
    /\ last'.readOk
    /\ (last'.force_cache \/ now - snapshot.datetime < DayMinutes)

\* C1: a load with forceCache and without forceUpdate that finds the snapshot
\* missing or unreadable ends in ServiceUnavailable, without invoking
\* discovery and without writing a snapshot.
C1_ForcedCacheUnavailable ==
    [][(/\ LoadStep
        /\ last'.force_cache
        /\ ~ last'.force_update
        /\ (snapshot = NoFile \/ ~ last'.readOk))
       => (/\ last'.err = "ServiceUnavailable"
           /\ ~ last'.discovered
           /\ snapshot' = snapshot)]_vars

C1_Witness ==
    /\ last.op = "load"
    /\ last.force_cache
    /\ ~ last.force_update
    /\ last.err = "ServiceUnavailable"
    /\ snapshot = NoFile

C1_WitnessUnreadable ==
    /\ last.op = "load"
    /\ last.force_cache
    /\ ~ last.force_update
    /\ ~ last.readOk
    /\ last.err = "ServiceUnavailable"
    /\ snapshot # NoFile

Institutions ==
    {StripSlashes(RootPage[i].href) :
        i \in {j \in 1..Len(RootPage) : "href" \in DOMAIN RootPage[j]}}
PageOf(section) == IF section = "upmc" THEN UpmcPage ELSE StagesPage
ScheduleNames(page) ==
    {page[i].text : i \in {j \in 1..Len(page) : ~ IsExternal(page[j].href)}}

\* a catalog with every institution of the site and, for each, every
\* schedule-group of its page
WholeCatalog(c) ==
    /\ DOMAIN c = Institutions
    /\ \A k \in DOMAIN c :
          /\ {c[k].publics[i].name : i \in 1..Len(c[k].publics)}
                = ScheduleNames(PageOf(k))
          /\ Len(c[k].publics) = Cardinality(ScheduleNames(PageOf(k)))

----------------------------------------------------------------------------
(* The feed fetcher: claims checked under SpecFeed *)

\* the catalog that the fetcher reads, and the schedule asked for in it
CatalogReadable == snapshot # NoFile /\ last.fault # "catalog-read"
ScheduleKnown ==
    /\ snapshot # NoFile
    /\ inp.uni \in DOMAIN snapshot.plannings
    /\ \E i \in 1..Len(snapshot.plannings[inp.uni].publics) :
          snapshot.plannings[inp.uni].publics[i].name = inp.public_code
KnownGroups ==
    LET publics == snapshot.plannings[inp.uni].publics
    IN  publics[Min({i \in 1..Len(publics) : publics[i].name = inp.public_code})].groups
AllGroups == inp.group \in {"all", "tout"}

\* C3: a call that finds, for the resolved URL, a Feed Cache entry inside the
\* freshness window and a readable body is served from the cache, without a
\* request of the feed upstream.
C3_HitMakesNoRequest ==
    (last.op = "fetch" /\ last.hit) => (~ last.fetched /\ last.err = "none")

\* C4: when the upstream fetch and the normalization succeed and the write of
\* the Feed Cache (index or body) fails, the call still returns the
\* normalized calendar.
C4_WriteFailureSwallowed ==
    (/\ last.op = "fetch"
     /\ last.normalized
     /\ last.fault \in {"index-write", "body-write"})
    => (last.err = "none" /\ last.value # NotFound)

\* the events of a returned calendar, and of the upstream answer it comes from
EventsOf(components) ==
    {components[i].ev : i \in {j \in 1..Len(components) : components[j].kind = "VEVENT"}}
Emitted == EventsOf(last.value.components)
Returned == last.op = "fetch" /\ last.err = "none" /\ last.value # NotFound

\* a summary that starts with a bracketed group label
CarriesGroupLabel(summary) ==
    LET k == RunLen(summary, 2, Alnum)
    IN  /\ Len(summary) >= k + 3
        /\ summary[1] = "["
        /\ k >= 1
        /\ summary[k + 2] = "]"
        /\ summary[k + 3] = " "

\* the token that "all" / "tout" stand for
TokenResolved ==
    /\ KnownGroups = <<"A", "B">> => last.token = "A_B"
    /\ KnownGroups = <<>> => last.token = "0"
    /\ KnownGroups \in {<<"A", "B">>, <<>>}

\* C5, as stated: for "all" or "tout" the group token is the known subgroup
\* codes joined by underscore ("0" when there are none), and no emitted event
\* summary carries a group label.
C5_AllGroupsStripLabels ==
    (last.op = "fetch" /\ AllGroups /\ last.fetched)
    => (/\ TokenResolved
        /\ Returned => \A e \in Emitted : ~ CarriesGroupLabel(e.summary))

\* C5, amended: for "all" or "tout" the group token is the known subgroup
\* codes joined by underscore ("0" when there are none), and the per-event
\* group labels are kept: every emitted event whose title had a group tag has
\* a summary that starts with that label.  The labels are stripped when one
\* group is asked for by name.
C5_AllGroupsKeepLabels ==
    /\ (last.op = "fetch" /\ AllGroups /\ last.fetched)
       => (/\ TokenResolved
           /\ Returned
                 => LET upstream == TrimFeed(last.answer.text)
                        emitted == last.value.components
                    IN  \A i \in 1..Len(emitted) :
                           (/\ emitted[i].kind = "VEVENT"
                            /\ ReGroupFindall(upstream[i + 1].ev.summary) # <<>>)
                           => (/\ CarriesGroupLabel(emitted[i].ev.summary)
                               /\ SubSeq(emitted[i].ev.summary, 1, 4)
                                     = SubSeq(upstream[i + 1].ev.summary, 1, 4)))
    /\ (Returned /\ ~ AllGroups)
       => \A e \in Emitted : ~ CarriesGroupLabel(e.summary)

\* "tout" for a schedule with the subgroups A and B, answered and returned
C5_Witness ==
    /\ Returned
    /\ inp.group = "tout"
    /\ ScheduleKnown
    /\ KnownGroups = <<"A", "B">>
    /\ last.token = "A_B"
    /\ \E e \in Emitted : CarriesGroupLabel(e.summary)

C5_WitnessNoGroups ==
    /\ Returned
    /\ inp.group = "all"
    /\ ScheduleKnown
    /\ KnownGroups = <<>>
    /\ last.token = "0"

\* C6: a request that does not resolve returns the absent value and never
\* raises.  Stated for a readable catalog and an upstream that answers the
\* feed request with a non-success status: whether or not the catalog has the
\* institution and the schedule, and whatever the group selector, the call
\* returns the absent value.
C6_UnresolvedIsNotFound ==
    (/\ last.op = "fetch"
     /\ CatalogReadable
     /\ last.answer.kind = "status")
    => (last.err = "none" /\ last.value = NotFound)

----------------------------------------------------------------------------
(* Discovery: the claim checked under SpecDisc *)

\* the pages of the site answer and every anchor of them has an href
PagesServed ==
    /\ inp.rootOk
    /\ \A h \in DOMAIN inp.sections :
          /\ inp.sections[h].ok
          /\ \A i \in 1..Len(inp.sections[h].page) :
                "href" \in DOMAIN inp.sections[h].page[i]

\* the subgroup-discovery step fails: the request, the parse, or a record
\* without the group-id field
SubgroupStepFails(answer) ==
    \/ answer.kind # "json"
    \/ \E i \in 1..Len(answer.records) : "avaibleGroupId" \notin DOMAIN answer.records[i]

\* C7: a failure of the subgroup-discovery step of a schedule-group leaves it
\* with an empty groups list, and discovery goes on to the end.
C7_FailedStepGivesNoGroups ==
    (out # Pending /\ PagesServed)
    => (/\ out.err = "none"
        /\ \A k \in DOMAIN out.plannings :
              \A i \in 1..Len(out.plannings[k].publics) :
                 LET public == out.plannings[k].publics[i]
                 IN  SubgroupStepFails(inp.jsoncal[public.name])
                        => public.groups = <<>>)

----------------------------------------------------------------------------
(* The normalizer: claims checked under SpecNorm *)

InputEvents == EventsOf(inp.text)
OutputEvents == EventsOf(out.ical.bytes.components)

\* the title that is split: the summary without its group tag
WorkingTitle(event) ==
    IF ReGroupFindall(event.summary) = <<>> THEN event.summary
    ELSE ReGroupFindall(event.summary)[1][2]
Segments(event) == TitleParts(WorkingTitle(event))

\* C8: every emitted event has timezone-aware start, end and stamp and, when
\* it has a recurrence rule, timezone-aware "until" bounds; an event without
\* a recurrence rule is normalized like any other.  Stated for the calendars
\* whose events have a title of two segments or more and a rule, if any, with
\* "until" bounds.
C8_EventsZoneAware ==
    (/\ out # Pending
     /\ \A e \in InputEvents :
           /\ Len(Segments(e)) >= 2
           /\ "rrule" \in DOMAIN e => "until" \in DOMAIN e.rrule)
    => (/\ out.err = "none"
        /\ Cardinality(OutputEvents) = Cardinality(InputEvents)
        /\ \A e \in OutputEvents :
              /\ IsAware(e.dtstart) /\ IsAware(e.dtend) /\ IsAware(e.dtstamp)
              /\ "rrule" \in DOMAIN e
                    => \A i \in 1..Len(e.rrule.until) : IsAware(e.rrule.until[i]))

\* s ends with t / t occurs in s
EndsWith(s, t) == Len(s) >= Len(t) /\ SubSeq(s, Len(s) - Len(t) + 1, Len(s)) = t
Occurs(s, t) == \E i \in 1..(Len(s) - Len(t) + 1) : SubSeq(s, i, i + Len(t) - 1) = t

\* C9: title parsing never fails the feed.  For every title, of n >= 1
\* segments, the event is emitted; the code is segment 1; for n = 2 the name
\* is segment 1 and the place segment 2; for n >= 3 the name is segment 2 and
\* the place segment 3.  Stated for the calendars whose events have a
\* recurrence rule with "until" bounds.
C9_TitleNeverFails ==
    (/\ out # Pending
     /\ \A e \in InputEvents : "rrule" \in DOMAIN e /\ "until" \in DOMAIN e.rrule)
    => (/\ out.err = "none"
        /\ \A i \in 2..(Len(inp.text) - 1) :
              inp.text[i].kind = "VEVENT"
              => LET parts == Segments(inp.text[i].ev)
                     n == Len(parts)
                     emitted == out.ical.bytes.components[i - 1].ev
                     name == IF n = 2 THEN parts[1] ELSE parts[2]
                     place == IF n = 2 THEN parts[2] ELSE parts[3]
                 IN  n >= 2
                     => (/\ Occurs(emitted.description,
                                   name \o <<" ", "(">> \o parts[1] \o <<")">>)
                         /\ EndsWith(emitted.description, SalleLine \o FixPlace(place))))

====
